---- MODULE Spec2Model ----
(***************************************************************************)
(* Model of the resume analyzer backend: analyzer.js (the deterministic    *)
(* scoring engine) and server.js (the upload pipeline of POST /analyze).   *)
(*                                                                         *)
(* A JavaScript string is a sequence of characters; a character is a       *)
(* one-letter string, except "LF" (\n), "CR" (\r), "TAB" (\t) and "BULLET" *)
(* (U+2022).                                                               *)
(***************************************************************************)
EXTENDS Integers, Sequences, FiniteSets, TLC

VARIABLES
    resumeText,   \* analyzer: the resumeText argument, as a text descriptor
    options,      \* analyzer: the options argument
    result,       \* analyzer: the value analyzeResume returned
    apc,          \* analyzer: "ready" before the call, "returned" after it
    defaultSkills, \* analyzer: the array DEFAULT_SKILLS of the module, as it stands
    history,      \* analyzer: the calls made so far: arguments, result, catalog left
    upload,       \* server: the multipart upload of the request
    spc,          \* server: where the handling of the request stands
    pendingErr,   \* server: the error passed to next(err)
    reqFile,      \* server: req.file
    tmpFile,      \* server: the temporary file: "none", "stored" or "deleted"
    timer,        \* server: the timer of line 219: "unset", "pending", "fired" or "cleared"
    ext,          \* server: where extractTextFromUpload stands
    extErr,       \* server: the error textPromise was rejected with
    calls,        \* server: the calls made to fs, pdfParse and analyzeResume, in order
    responses,    \* server: the responses sent, in order
    logs,         \* server: what the handler wrote to the console, in order
    elapsed,      \* server: the milliseconds passed since the timer of line 219 was set
    races         \* server: the Promise.race calls of the handler, in order

avars == <<resumeText, options, result, apc, defaultSkills, history>>
svars == <<upload, spc, pendingErr, reqFile, tmpFile, timer, ext, extErr, calls, responses,
          logs, elapsed, races>>
vars == <<avars, svars>>

----------------------------------------------------------------------------
(* Characters and the String methods the code uses *)

LowerLetters == <<"a","b","c","d","e","f","g","h","i","j","k","l","m","n","o","p","q","r","s","t","u","v","w","x","y","z">>
UpperLetters == <<"A","B","C","D","E","F","G","H","I","J","K","L","M","N","O","P","Q","R","S","T","U","V","W","X","Y","Z">>
LowerSet == {LowerLetters[i] : i \in DOMAIN LowerLetters}
UpperSet == {UpperLetters[i] : i \in DOMAIN UpperLetters}
DigitSet == {"0","1","2","3","4","5","6","7","8","9"}

\* \s of a JavaScript regular expression, within the model's alphabet
WhitespaceSet == {" ", "TAB", "LF", "CR"}

\* [^\S\n]: whitespace other than the newline
IsBlankNotNewline(c) == c \in WhitespaceSet /\ c # "LF"

\* \w of a JavaScript regular expression
IsWordChar(c) == c \in LowerSet \/ c \in UpperSet \/ c \in DigitSet \/ c = "_"

LowerOf == [c \in UpperSet |-> LowerLetters[CHOOSE i \in DOMAIN UpperLetters : UpperLetters[i] = c]]

toLowerCaseChar(c) == IF c \in UpperSet THEN LowerOf[c] ELSE c

\* the function f on 1..n as a tuple
AsTuple(f) == f \o <<>>

toLowerCase(s) == AsTuple([i \in 1..Len(s) |-> toLowerCaseChar(s[i])])

CharAt(s, i) == IF i >= 1 /\ i <= Len(s) THEN s[i] ELSE "NONE"

RECURSIVE trimStart(_)
trimStart(s) ==
    IF s # <<>> /\ Head(s) \in WhitespaceSet THEN trimStart(Tail(s)) ELSE s

RECURSIVE trimEnd(_)
trimEnd(s) ==
    IF s # <<>> /\ s[Len(s)] \in WhitespaceSet THEN trimEnd(SubSeq(s, 1, Len(s) - 1)) ELSE s

\* String.prototype.trim
trim(s) == trimEnd(trimStart(s))

\* String.prototype.endsWith
endsWith(s, suffix) ==
    /\ Len(suffix) <= Len(s)
    /\ SubSeq(s, Len(s) - Len(suffix) + 1, Len(s)) = suffix

RECURSIVE join(_, _)
\* Array.prototype.join
join(arr, sep) ==
    IF arr = <<>> THEN <<>>
    ELSE IF Len(arr) = 1 THEN arr[1]
    ELSE arr[1] \o sep \o join(Tail(arr), sep)

----------------------------------------------------------------------------
(* analyzer.js *)

DEFAULT_SKILLS == <<
    <<"j", "a", "v", "a", "s", "c", "r", "i", "p", "t">>, <<"t", "y", "p", "e", "s", "c", "r", "i", "p", "t">>, <<"n", "o", "d", "e">>, <<"e", "x", "p", "r", "e", "s", "s">>, <<"r", "e", "a", "c", "t">>,
    <<"h", "t", "m", "l">>, <<"c", "s", "s">>, <<"r", "e", "s", "t">>, <<"a", "p", "i">>, <<"g", "i", "t">>,
    <<"s", "q", "l">>, <<"p", "y", "t", "h", "o", "n">>, <<"j", "a", "v", "a">>, <<"a", "w", "s">>, <<"a", "z", "u", "r", "e">>, <<"d", "o", "c", "k", "e", "r">>, <<"k", "u", "b", "e", "r", "n", "e", "t", "e", "s">>,
    <<"a", "g", "i", "l", "e">>, <<"s", "c", "r", "u", "m">>, <<"j", "i", "r", "a">>, <<"t", "e", "s", "t", "i", "n", "g">>, <<"u", "n", "i", "t", " ", "t", "e", "s", "t", "i", "n", "g">>, <<"c", "i", "/", "c", "d">> >>

\* .replace(/\r\n/g, "\n"): a CR directly followed by LF is dropped
replaceCRLF(s) ==
    LET pairs == AsTuple([i \in 1..Len(s) |-> <<s[i], CharAt(s, i + 1)>>])
        keep(p) == ~(p[1] = "CR" /\ p[2] = "LF")
        kept == SelectSeq(pairs, keep)
    IN  AsTuple([i \in 1..Len(kept) |-> kept[i][1]])

\* .replace(/[^\S\n]+/g, " "): each maximal run of non-newline whitespace
\* becomes one space
collapseBlanks(s) ==
    LET pairs == AsTuple([i \in 1..Len(s) |-> <<s[i], CharAt(s, i - 1)>>])
        keep(p) == ~(IsBlankNotNewline(p[1]) /\ IsBlankNotNewline(p[2]))
        kept == SelectSeq(pairs, keep)
    IN  AsTuple([i \in 1..Len(kept) |-> IF IsBlankNotNewline(kept[i][1]) THEN " " ELSE kept[i][1]])

normalize(text) == toLowerCase(collapseBlanks(replaceCRLF(text)))

RegExpSpecials == {".", "*", "+", "?", "^", "$", "{", "}", "(", ")", "|", "[", "]", "BACKSLASH"}

RECURSIVE escapeRegExp(_)
\* word.replace(/[.*+?^${}()|[\]\\]/g, "\\$&")
escapeRegExp(word) ==
    IF word = <<>> THEN <<>>
    ELSE IF Head(word) \in RegExpSpecials
         THEN <<"BACKSLASH", Head(word)>> \o escapeRegExp(Tail(word))
         ELSE <<Head(word)>> \o escapeRegExp(Tail(word))

RECURSIVE patternLiteral(_)
\* the characters a pattern source made of plain and backslash-escaped
\* characters matches, in order
patternLiteral(source) ==
    IF source = <<>> THEN <<>>
    ELSE IF Head(source) = "BACKSLASH" /\ Len(source) >= 2
         THEN <<source[2]>> \o patternLiteral(Tail(Tail(source)))
         ELSE <<Head(source)>> \o patternLiteral(Tail(source))

\* [a-z0-9] under the "i" flag
IsAlnumI(c) == c \in LowerSet \/ c \in UpperSet \/ c \in DigitSet

\* a plain substring test, without the two boundary groups
includesWordNoBoundary(text, word) ==
    IF word = <<>> THEN FALSE
    ELSE \E i \in 1..(Len(text) - Len(word) + 1) :
            \A k \in 1..Len(word) : toLowerCaseChar(text[i + k - 1]) = toLowerCaseChar(word[k])

\* new RegExp(`(^|[^a-z0-9])${escaped}([^a-z0-9]|$)`, "i").test(text)
includesWord(text, word) ==
    IF word = <<>> THEN FALSE
    ELSE LET escaped == escapeRegExp(word)
             lit == patternLiteral(escaped)
             n == Len(lit)
         IN  \E i \in 1..(Len(text) - n + 1) :
                /\ toLowerCaseChar(text[i]) = toLowerCaseChar(lit[1])
                /\ \A k \in 2..n : toLowerCaseChar(text[i + k - 1]) = toLowerCaseChar(lit[k])
                /\ (i = 1 \/ ~IsAlnumI(text[i - 1]))
                /\ (i + n - 1 = Len(text) \/ ~IsAlnumI(text[i + n]))

sectionHints == <<
    [key |-> "summary",    labels |-> << <<"s", "u", "m", "m", "a", "r", "y">>, <<"p", "r", "o", "f", "e", "s", "s", "i", "o", "n", "a", "l", " ", "s", "u", "m", "m", "a", "r", "y">>, <<"p", "r", "o", "f", "i", "l", "e">> >>],
    [key |-> "experience", labels |-> << <<"e", "x", "p", "e", "r", "i", "e", "n", "c", "e">>, <<"w", "o", "r", "k", " ", "e", "x", "p", "e", "r", "i", "e", "n", "c", "e">>, <<"e", "m", "p", "l", "o", "y", "m", "e", "n", "t">> >>],
    [key |-> "education",  labels |-> << <<"e", "d", "u", "c", "a", "t", "i", "o", "n">>, <<"a", "c", "a", "d", "e", "m", "i", "c", "s">> >>],
    [key |-> "skills",     labels |-> << <<"s", "k", "i", "l", "l", "s">>, <<"t", "e", "c", "h", "n", "i", "c", "a", "l", " ", "s", "k", "i", "l", "l", "s">>, <<"c", "o", "r", "e", " ", "s", "k", "i", "l", "l", "s">> >>],
    [key |-> "projects",   labels |-> << <<"p", "r", "o", "j", "e", "c", "t", "s">>, <<"p", "r", "o", "j", "e", "c", "t", " ", "e", "x", "p", "e", "r", "i", "e", "n", "c", "e">> >> ] >>

\* the keys of the hints one of whose labels is found, in the order of the hints
detectSections(text) ==
    LET hit(s) == \E j \in 1..Len(s.labels) : includesWord(text, s.labels[j])
        found == SelectSeq(sectionHints, hit)
    IN  AsTuple([i \in 1..Len(found) |-> found[i].key])

includes(arr, x) == \E i \in 1..Len(arr) : arr[i] = x

\* Math.floor in the place of Math.round
MathFloor60(num, den) == (60 * num) \div den

\* Math.round(num / den * 60) for integers num >= 0, den > 0 (half rounds up)
MathRound60(num, den) == (120 * num + den) \div (2 * den)

Min(a, b) == IF a <= b THEN a ELSE b
Max(a, b) == IF a >= b THEN a ELSE b

sectionPoints == [summary |-> 5, experience |-> 10, education |-> 5, skills |-> 5, projects |-> 5]
sectionKeys == <<"summary", "experience", "education", "skills", "projects">>

\* /(^|\n)\s*[-BULLET*]\s+\S+/m
hasBulletLine(text) ==
    \E k \in 1..Len(text) :
        /\ text[k] \in {"-", "BULLET", "*"}
        /\ CharAt(text, k + 1) \in WhitespaceSet
        /\ \E e \in (k + 2)..Len(text) :
              /\ text[e] \notin WhitespaceSet
              /\ \A j \in (k + 1)..(e - 1) : text[j] \in WhitespaceSet
        /\ \E p \in 1..k :
              /\ (p = 1 \/ text[p - 1] \in {"LF", "CR"})
              /\ \A j \in p..(k - 1) : text[j] \in WhitespaceSet

\* \b before the character at i, that character being a word character
WordStartsAt(text, i) == i = 1 \/ ~IsWordChar(text[i - 1])

\* the end of the maximal run of digits that starts at i
RECURSIVE digitsEnd(_, _)
digitsEnd(text, i) ==
    IF i < Len(text) /\ text[i + 1] \in DigitSet THEN digitsEnd(text, i + 1) ELSE i

\* /\b\d{4}\b/
hasYear(text) ==
    \E i \in 1..(Len(text) - 3) :
        /\ \A k \in 0..3 : text[i + k] \in DigitSet
        /\ WordStartsAt(text, i)
        /\ (i + 3 = Len(text) \/ ~IsWordChar(text[i + 4]))

\* /\b\d+%|\b\d+\+/
hasPercentOrPlus(text) ==
    \E i \in 1..Len(text) :
        /\ text[i] \in DigitSet
        /\ WordStartsAt(text, i)
        /\ CharAt(text, digitsEnd(text, i) + 1) \in {"%", "+"}

hasNumbersSignal(text) == hasYear(text) \/ hasPercentOrPlus(text)

\* lines 76-79: skill coverage
coveragePoints(skillsFound, missingSkills) ==
    LET totalSkills == Len(skillsFound) + Len(missingSkills)
    IN  IF totalSkills = 0 THEN 0 ELSE MathRound60(Len(skillsFound), totalSkills)

RECURSIVE addSectionPoints(_, _, _)
\* lines 90-92: the loop over Object.keys(sectionPoints)
addSectionPoints(score, keys, sectionsFound) ==
    IF keys = <<>> THEN score
    ELSE addSectionPoints(
            IF includes(sectionsFound, Head(keys)) THEN score + sectionPoints[Head(keys)] ELSE score,
            Tail(keys), sectionsFound)

\* lines 96-103: formatting signals
formattingPoints(text) ==
      (IF Len(text) >= 1200 THEN 5 ELSE 0)
    + (IF Len(text) >= 2500 THEN 3 ELSE 0)
    + (IF hasBulletLine(text) THEN 4 ELSE 0)
    + (IF hasNumbersSignal(text) THEN 3 ELSE 0)

\* the score without the cap of line 93 and the clamp of line 105
scoreFromHeuristicsUncapped(text, skillsFound, missingSkills, sectionsFound) ==
    addSectionPoints(coveragePoints(skillsFound, missingSkills), sectionKeys, sectionsFound)
        + formattingPoints(text)

\* the score without the cap of line 93
scoreFromHeuristicsNoStructureCap(text, skillsFound, missingSkills, sectionsFound) ==
    LET score1 == coveragePoints(skillsFound, missingSkills)
        score2 == addSectionPoints(score1, sectionKeys, sectionsFound)
        score4 == score2 + formattingPoints(text)
    IN  Max(0, Min(100, score4))

scoreFromHeuristics(text, skillsFound, missingSkills, sectionsFound) ==
    LET score1 == coveragePoints(skillsFound, missingSkills)
        score2 == addSectionPoints(score1, sectionKeys, sectionsFound)
        score3 == Min(score2, 60 + 25)
        score4 == score3 + formattingPoints(text)
    IN  Max(0, Min(100, score4))

\* the collation order localeCompare gives the model's characters: blanks,
\* punctuation, symbols, digits, letters; a letter's case decides only between
\* strings that are otherwise equal, lower case first
CollationOrder == <<" ", "_", "-", ".", "/", "+", "%",
                    "0","1","2","3","4","5","6","7","8","9">> \o LowerLetters

CollationRank(c) == CHOOSE i \in DOMAIN CollationOrder : CollationOrder[i] = toLowerCaseChar(c)

RECURSIVE primaryCompare(_, _)
primaryCompare(a, b) ==
    IF a = <<>> THEN (IF b = <<>> THEN 0 ELSE -1)
    ELSE IF b = <<>> THEN 1
    ELSE IF CollationRank(Head(a)) < CollationRank(Head(b)) THEN -1
    ELSE IF CollationRank(Head(a)) > CollationRank(Head(b)) THEN 1
    ELSE primaryCompare(Tail(a), Tail(b))

RECURSIVE caseCompare(_, _)
caseCompare(a, b) ==
    IF a = <<>> \/ b = <<>> THEN 0
    ELSE IF Head(a) = Head(b) THEN caseCompare(Tail(a), Tail(b))
    ELSE IF Head(a) \in UpperSet THEN 1 ELSE -1

\* a.localeCompare(b)
localeCompare(a, b) ==
    LET p == primaryCompare(a, b) IN IF p # 0 THEN p ELSE caseCompare(a, b)

localeBefore(a, b) == localeCompare(a, b) < 0

RECURSIVE dedupe(_)
\* Array.from(new Set(arr)): the first occurrence of each value, in order
dedupe(arr) ==
    IF arr = <<>> THEN <<>>
    ELSE LET init == dedupe(SubSeq(arr, 1, Len(arr) - 1))
             last == arr[Len(arr)]
         IN  IF includes(init, last) THEN init ELSE Append(init, last)

nonEmpty(s) == s # <<>>

\* unique without the trim of its entries
uniqueNoTrim(arr) == SelectSeq(dedupe(arr), nonEmpty)

\* lines 130-131
unique(arr) == SelectSeq(dedupe(AsTuple([i \in 1..Len(arr) |-> trim(arr[i])])), nonEmpty)

\* the catalog without the test of its length
effectiveSkillsAnyArray(opts) ==
    IF opts.isArray THEN opts.targetSkills ELSE defaultSkills

\* lines 116-118
effectiveSkills(opts) ==
    IF opts.isArray /\ Len(opts.targetSkills) # 0 THEN opts.targetSkills ELSE defaultSkills

\* a call that takes the entries out of the array it was given, with shift()
targetSkillsShifted(targetSkills) ==
    IF targetSkills = <<>> THEN <<>> ELSE Tail(targetSkills)

\* lines 123-134: the array a call was given, after the call. The loop reads
\* it, and unique() copies (map, Array.from) before sort() is applied.
targetSkillsAfter(targetSkills) == targetSkills

skillOf(rawSkill) == toLowerCase(trim(rawSkill))

SuggestSkills == "Add a dedicated 'Skills' section with relevant keywords."
SuggestExperience == "Add a 'Work Experience' section with role details and impact."
SuggestBullets == "Use bullet points for responsibilities and achievements."
SuggestNumbers == "Add measurable results (%, numbers) and dates to strengthen impact."
SuggestKeywords == "If relevant, include missing keywords naturally: "
SuggestLength == "Add more detail (projects, tools, accomplishments) - the resume looks too short."

\* a suggestion is its fixed text followed by the characters appended to it
Fixed(msg) == [text |-> msg, tail |-> <<>>]

\* the missing skills joined, all of them
keywordTailUnsliced(missingUnique) == join(missingUnique, <<",", " ">>)

\* missingUnique.slice(0, 8).join(", ") + (missingUnique.length > 8 ? ", ..." : "")
keywordTail(missingUnique) ==
    join(SubSeq(missingUnique, 1, Min(8, Len(missingUnique))), <<",", " ">>)
        \o (IF Len(missingUnique) > 8 THEN <<",", " ", ".", ".", ".">> ELSE <<>>)

\* the suggestions with the length rule tested before the keyword rule
suggestionsForLengthFirst(text, sectionsFound, missingUnique) ==
       (IF ~includes(sectionsFound, "skills") THEN <<Fixed(SuggestSkills)>> ELSE <<>>)
    \o (IF ~includes(sectionsFound, "experience") THEN <<Fixed(SuggestExperience)>> ELSE <<>>)
    \o (IF ~hasBulletLine(text) THEN <<Fixed(SuggestBullets)>> ELSE <<>>)
    \o (IF ~hasNumbersSignal(text) THEN <<Fixed(SuggestNumbers)>> ELSE <<>>)
    \o (IF Len(text) < 900 THEN <<Fixed(SuggestLength)>> ELSE <<>>)
    \o (IF Len(missingUnique) > 0
        THEN <<[text |-> SuggestKeywords, tail |-> keywordTail(missingUnique)]>> ELSE <<>>)

\* lines 139-160
suggestionsFor(text, sectionsFound, missingUnique) ==
       (IF ~includes(sectionsFound, "skills") THEN <<Fixed(SuggestSkills)>> ELSE <<>>)
    \o (IF ~includes(sectionsFound, "experience") THEN <<Fixed(SuggestExperience)>> ELSE <<>>)
    \o (IF ~hasBulletLine(text) THEN <<Fixed(SuggestBullets)>> ELSE <<>>)
    \o (IF ~hasNumbersSignal(text) THEN <<Fixed(SuggestNumbers)>> ELSE <<>>)
    \o (IF Len(missingUnique) > 0
        THEN <<[text |-> SuggestKeywords, tail |-> keywordTail(missingUnique)]>> ELSE <<>>)
    \o (IF Len(text) < 900 THEN <<Fixed(SuggestLength)>> ELSE <<>>)

analyzeResume(rawText, opts) ==
    LET text == normalize(rawText)
        targetSkills == effectiveSkills(opts)
        isFound(rawSkill) == skillOf(rawSkill) # <<>> /\ includesWord(text, skillOf(rawSkill))
        isMissing(rawSkill) == skillOf(rawSkill) # <<>> /\ ~includesWord(text, skillOf(rawSkill))
        skillsFound == SelectSeq(targetSkills, isFound)
        missingSkills == SelectSeq(targetSkills, isMissing)
        foundUnique == SortSeq(unique(skillsFound), localeBefore)
        missingUnique == SortSeq(unique(missingSkills), localeBefore)
        sectionsFound == detectSections(text)
    IN  [ atsScore |-> scoreFromHeuristics(text, foundUnique, missingUnique, sectionsFound),
          skillsFound |-> foundUnique,
          missingSkills |-> missingUnique,
          suggestions |-> suggestionsFor(text, sectionsFound, missingUnique) ]

----------------------------------------------------------------------------
(* The inputs of analyzeResume *)

MaxFrags == 2
MaxCatalog == 2

\* pieces of resume text
Fragment == [
    java     |-> <<"j", "a", "v", "a">>,
    script   |-> <<"J", "a", "v", "a", "S", "c", "r", "i", "p", "t">>,
    cicd     |-> <<"c", "i", "/", "c", "d", " ", "p", "i", "p", "e", "l", "i", "n", "e">>,
    blank    |-> <<"TAB", "CR", "LF">>,
    bullet   |-> <<"-", " ", "L", "e", "d">>,
    year     |-> <<"2", "0", "2", "0">>,
    pct      |-> <<"1", "5", "%">>,
    plus     |-> <<"3", "+">>,
    sections |-> <<"P", "r", "o", "f", "i", "l", "e", "LF", "E", "x", "p", "e", "r", "i", "e", "n", "c", "e", "LF", "E", "d", "u", "c", "a", "t", "i", "o", "n", "LF", "S", "k", "i", "l", "l", "s", "LF", "P", "r", "o", "j", "e", "c", "t", "s", "LF">>,
    x        |-> <<"x">> ]

\* the fragments every text of at most MaxFrags fragments is built from
CoreFrags == {"java", "script", "blank", "bullet", "year", "sections", "x"}

\* further short texts
SampleTexts == { <<"cicd">>, <<"blank", "cicd">>, <<"cicd", "x">>,
                 <<"pct">>, <<"x", "pct">>, <<"plus">>, <<"year", "pct">> }

SeqsUpTo(S, n) == UNION {[1..k -> S] : k \in 0..n}

\* total lengths around the thresholds of lines 100, 101 and 158
PadTargets == {899, 900, 1199, 1200, 2499, 2500, 2600}

RECURSIVE concat(_)
concat(names) == IF names = <<>> THEN <<>> ELSE Fragment[Head(names)] \o concat(Tail(names))

\* the string a text descriptor stands for: its fragments, then dots up to
\* the length padTo
Chars(d) ==
    LET body == concat(d.frags)
    IN  IF d.padTo > Len(body)
        THEN body \o AsTuple([i \in 1..(d.padTo - Len(body)) |-> "."])
        ELSE body

ShortTexts == {[frags |-> f, padTo |-> 0] : f \in SeqsUpTo(CoreFrags, MaxFrags) \cup SampleTexts}

LongBases == { <<>>, <<"blank">>, <<"sections", "java">>,
               <<"sections", "bullet", "blank", "java", "blank", "year">> }

LongTexts == {[frags |-> f, padTo |-> n] : f \in LongBases, n \in PadTargets}

\* entries of a caller's targetSkills
SkillEntries == { <<"j", "a", "v", "a">>, <<"J", "a", "v", "a", " ">>, <<" ">> }

NineSkills == << <<"g", "o">>, <<"r", "u", "s", "t">>, <<"c", "+", "+">>, <<"p", "e", "r", "l">>, <<"r", "u", "b", "y">>, <<"s", "c", "a", "l", "a">>, <<"p", "h", "p">>, <<"j", "a", "v", "a">>, <<"G", "o">> >>

DupSkills == << <<"j", "a", "v", "a">>, <<"s", "q", "l">>, <<"j", "a", "v", "a">> >>

Catalogs == SeqsUpTo(SkillEntries, MaxCatalog) \cup {NineSkills, DupSkills}

NoOptions == [isArray |-> FALSE, targetSkills |-> <<>>]

AllOptions == {[isArray |-> TRUE, targetSkills |-> c] : c \in Catalogs} \cup {NoOptions}

LongOptions == {NoOptions, [isArray |-> TRUE, targetSkills |-> << <<"j", "a", "v", "a">> >>]}

NoResult == [atsScore |-> -1, skillsFound |-> <<>>, missingSkills |-> <<>>, suggestions |-> <<>>]

AnalyzerInputs ==
    /\ \/ resumeText \in ShortTexts /\ options \in AllOptions
       \/ resumeText \in LongTexts /\ options \in LongOptions
    /\ result = NoResult
    /\ apc = "ready"
    /\ defaultSkills = DEFAULT_SKILLS
    /\ history = <<>>

\* the caller passed a catalog that the call uses (lines 116-117)
usesCallerCatalog(opts) == opts.isArray /\ Len(opts.targetSkills) # 0

\* one call analyzeResume(resumeText, options)
AnalyzeCall ==
    /\ apc = "ready"
    /\ result' = analyzeResume(Chars(resumeText), options)
    /\ apc' = "returned"
    /\ IF usesCallerCatalog(options)
       THEN /\ options' = [options EXCEPT !.targetSkills = targetSkillsAfter(@)]
            /\ UNCHANGED defaultSkills
       ELSE /\ defaultSkills' = targetSkillsAfter(defaultSkills)
            /\ UNCHANGED options
    /\ history' = Append(history, [text |-> resumeText, options |-> options,
                                   result |-> result', optionsAfter |-> options'])
    /\ UNCHANGED resumeText
    /\ UNCHANGED svars

\* the calls of one behaviour of the module
MaxCalls == 3

\* arguments of repeated calls
SeqTexts == {[frags |-> f, padTo |-> 0] : f \in { <<>>, <<"java">>, <<"script", "bullet">> }}

SeqOptions == {NoOptions, [isArray |-> TRUE, targetSkills |-> DupSkills],
               [isArray |-> TRUE, targetSkills |-> << <<"J", "a", "v", "a", " ">>, <<"j", "a", "v", "a">> >>]}

SeqInputs ==
    /\ resumeText \in SeqTexts /\ options \in SeqOptions
    /\ result = NoResult
    /\ apc = "ready"
    /\ defaultSkills = DEFAULT_SKILLS
    /\ history = <<>>

\* the caller sets up a further call, with arguments of its choice
NextArguments ==
    /\ apc = "returned"
    /\ Len(history) < MaxCalls
    /\ resumeText' \in SeqTexts
    /\ options' \in SeqOptions
    /\ result' = NoResult
    /\ apc' = "ready"
    /\ UNCHANGED <<defaultSkills, history>>
    /\ UNCHANGED svars

----------------------------------------------------------------------------
(* Properties of analyzeResume *)

EntrySet(arr) == {arr[i] : i \in 1..Len(arr)}

Returned == apc = "returned"

\* the normalized text of the call
ClaimText == normalize(Chars(resumeText))

\* the caller's catalog, when one was passed
ClaimCatalog == options.targetSkills

\* the trimmed, non-blank entries of a catalog
ClaimTrimmedEntries(catalog) == {trim(e) : e \in EntrySet(catalog)} \ {<<>>}

\* w occurs in text at i with no [a-z0-9] character directly before or after
ClaimOccursAt(text, w, i) ==
    /\ i + Len(w) - 1 <= Len(text)
    /\ SubSeq(text, i, i + Len(w) - 1) = w
    /\ (i = 1 \/ text[i - 1] \notin (LowerSet \cup DigitSet))
    /\ (i + Len(w) - 1 = Len(text) \/ text[i + Len(w)] \notin (LowerSet \cup DigitSet))

ClaimOccurs(text, w) == \E i \in 1..Len(text) : ClaimOccursAt(text, w, i)

ClaimClamp(n) == IF n < 0 THEN 0 ELSE IF n > 100 THEN 100 ELSE n

\* R: the fixed weights of the sections detected
ClaimStructure(text) ==
    LET secs == EntrySet(detectSections(text))
    IN    (IF "summary" \in secs THEN 5 ELSE 0)
        + (IF "experience" \in secs THEN 10 ELSE 0)
        + (IF "education" \in secs THEN 5 ELSE 0)
        + (IF "skills" \in secs THEN 5 ELSE 0)
        + (IF "projects" \in secs THEN 5 ELSE 0)

\* F: the formatting points
ClaimFormatting(text) ==
      (IF Len(text) >= 1200 THEN 5 ELSE 0)
    + (IF Len(text) >= 2500 THEN 3 ELSE 0)
    + (IF hasBulletLine(text) THEN 4 ELSE 0)
    + (IF hasYear(text) \/ hasPercentOrPlus(text) THEN 3 ELSE 0)

\* S: the skill-coverage points of the lists returned
ClaimCoverage == coveragePoints(result.skillsFound, result.missingSkills)

ClaimRound(num, den) ==
    CHOOSE r \in 0..60 : 2 * den * r <= 120 * num + den /\ 120 * num + den < 2 * den * (r + 1)

\* C1 as claimed: for every text and every catalog passed as targetSkills,
\* skillsFound and missingSkills are disjoint and their union is the set of
\* the entries of the catalog.
C1_Original_UnionIsCatalog ==
    (Returned /\ options.isArray) =>
        /\ EntrySet(result.skillsFound) \cap EntrySet(result.missingSkills) = {}
        /\ EntrySet(result.skillsFound) \cup EntrySet(result.missingSkills) = EntrySet(ClaimCatalog)

\* C1 (amended): for every text and every catalog passed as targetSkills,
\* skillsFound and missingSkills are disjoint and their union is the set of
\* the trimmed, non-blank entries of the catalog, or of the built-in default
\* list when the catalog passed is empty.
C1_PartitionOfTrimmedCatalog ==
    (Returned /\ options.isArray) =>
        /\ EntrySet(result.skillsFound) \cap EntrySet(result.missingSkills) = {}
        /\ EntrySet(result.skillsFound) \cup EntrySet(result.missingSkills)
              = ClaimTrimmedEntries(IF ClaimCatalog = <<>> THEN DEFAULT_SKILLS ELSE ClaimCatalog)

\* a call with a catalog holding a padded, differently-cased duplicate, both
\* forms of which are returned as found
C1_Witness ==
    /\ Returned /\ options.isArray
    /\ ClaimCatalog = << <<"j", "a", "v", "a">>, <<"J", "a", "v", "a", " ">> >>
    /\ result.skillsFound = << <<"j", "a", "v", "a">>, <<"J", "a", "v", "a">> >>

\* C2: atsScore is an integer with 0 <= atsScore <= 100, for every text and
\* every catalog.
C2_ScoreInRange == Returned => result.atsScore \in 0..100

\* a call that returns the maximal score
C2_Witness == Returned /\ result.atsScore = 100

\* C3: a catalog skill (an entry that is not blank) is in skillsFound if and
\* only if the normalized text has an occurrence of the trimmed, lower-cased
\* skill with no [a-z0-9] character directly before or after it, and is in
\* missingSkills otherwise; "java" is missing from a text that holds only
\* "javascript", and "ci/cd" is found in "ci/cd pipeline".
C3_WordBoundaryMatch ==
    Returned =>
      LET text == ClaimText IN
        /\ \A e \in EntrySet(effectiveSkills(options)) :
              trim(e) # <<>> =>
                 LET occurs == ClaimOccurs(text, toLowerCase(trim(e)))
                 IN  /\ (trim(e) \in EntrySet(result.skillsFound)) <=> occurs
                     /\ (trim(e) \in EntrySet(result.missingSkills)) <=> ~occurs
        /\ (resumeText.frags = <<"script">> /\ resumeText.padTo = 0
              /\ <<"j", "a", "v", "a">> \in EntrySet(effectiveSkills(options)))
           => /\ <<"j", "a", "v", "a">> \in EntrySet(result.missingSkills)
              /\ <<"j", "a", "v", "a">> \notin EntrySet(result.skillsFound)
        /\ (resumeText.frags = <<"cicd">> /\ <<"c", "i", "/", "c", "d">> \in EntrySet(effectiveSkills(options)))
           => <<"c", "i", "/", "c", "d">> \in EntrySet(result.skillsFound)

\* the text "JavaScript" analyzed for the skill "java", which is missing
C3_Witness ==
    /\ Returned
    /\ resumeText.frags = <<"script">> /\ resumeText.padTo = 0
    /\ options.isArray /\ ClaimCatalog = << <<"j", "a", "v", "a">> >>
    /\ result.missingSkills = << <<"j", "a", "v", "a">> >>

\* C4 as claimed: atsScore is S + R + F clamped to [0, 100].
C4_Original_PlainSum ==
    Returned =>
        LET text == ClaimText
        IN  result.atsScore
               = ClaimClamp(ClaimCoverage + ClaimStructure(text) + ClaimFormatting(text))

\* C4 (amended): atsScore is min(S + R, 85) + F clamped to [0, 100], where S
\* is the skill-coverage points, R the sum of the fixed weights (summary 5,
\* experience 10, education 5, skills 5, projects 5) over the sections
\* detected and F the formatting points.
C4_ScoreIsCappedSum ==
    Returned =>
        LET text == ClaimText
        IN  result.atsScore
               = ClaimClamp(Min(ClaimCoverage + ClaimStructure(text), 85) + ClaimFormatting(text))

\* a call where coverage and structure together exceed 85
C4_Witness ==
    /\ Returned
    /\ LET text == ClaimText IN ClaimCoverage + ClaimStructure(text) > 85
    /\ result.atsScore < 100

\* entries of the catalog that match the text, as positions of the catalog
ClaimMatchedPositions(text) ==
    {i \in 1..Len(ClaimCatalog) : ClaimOccurs(text, toLowerCase(trim(ClaimCatalog[i])))}

ClaimMatchedDistinct(text) ==
    {s \in ClaimTrimmedEntries(ClaimCatalog) : ClaimOccurs(text, toLowerCase(s))}

\* the score of a text whose coverage points are s
ClaimScoreWithCoverage(s, text) ==
    ClaimClamp(Min(s + ClaimStructure(text), 85) + ClaimFormatting(text))

\* C5 as claimed: for a non-empty catalog the coverage contribution to the
\* score is round(60 * matchedCount / totalCatalogCount), the counts being
\* taken over the entries of the supplied catalog, duplicates included
\* (stated here for catalogs none of whose entries is blank).
C5_Original_CountsEntries ==
    (Returned /\ options.isArray /\ ClaimCatalog # <<>>
        /\ \A e \in EntrySet(ClaimCatalog) : trim(e) # <<>>) =>
        LET text == ClaimText
            s == ClaimRound(Cardinality(ClaimMatchedPositions(text)), Len(ClaimCatalog))
        IN  /\ ClaimCoverage = s
            /\ result.atsScore = ClaimScoreWithCoverage(s, text)

\* C5 (amended): for a non-empty catalog the coverage contribution to the
\* score is round(60 * matchedCount / totalCount), the counts being taken
\* over the distinct trimmed non-blank entries of the catalog (0 when there
\* is none).
C5_CoverageCountsDistinct ==
    (Returned /\ options.isArray /\ ClaimCatalog # <<>>) =>
        LET text == ClaimText
            total == Cardinality(ClaimTrimmedEntries(ClaimCatalog))
            s == IF total = 0 THEN 0 ELSE ClaimRound(Cardinality(ClaimMatchedDistinct(text)), total)
        IN  /\ ClaimCoverage = s
            /\ result.atsScore = ClaimScoreWithCoverage(s, text)

\* a catalog with a duplicate entry, one of its two distinct skills matched
C5_Witness ==
    /\ Returned /\ options.isArray
    /\ ClaimCatalog = DupSkills
    /\ result.skillsFound = << <<"j", "a", "v", "a">> >> /\ result.missingSkills = << <<"s", "q", "l">> >>

\* C6 as claimed: with targetSkills = [] skill coverage contributes 0 points,
\* the score is the structure and formatting points only, and both
\* skillsFound and missingSkills are empty.
C6_Original_EmptyCatalogScoresNothing ==
    (Returned /\ options.isArray /\ ClaimCatalog = <<>>) =>
        /\ result.skillsFound = <<>>
        /\ result.missingSkills = <<>>
        /\ LET text == ClaimText IN result.atsScore = ClaimScoreWithCoverage(0, text)

\* C6 (amended): with targetSkills = [] the built-in default list is the
\* catalog (the result is that of a call without options); skill coverage
\* contributes 0 points, the score being the structure and formatting points
\* only and both lists empty, when the catalog passed has entries and all of
\* them are blank.
C6_EmptyCatalogFallsBack ==
    /\ (Returned /\ options.isArray /\ ClaimCatalog = <<>>) =>
        LET text == ClaimText IN
          /\ EntrySet(result.skillsFound) \cup EntrySet(result.missingSkills) = EntrySet(DEFAULT_SKILLS)
          /\ EntrySet(result.skillsFound)
                = {s \in EntrySet(DEFAULT_SKILLS) : ClaimOccurs(text, s)}
          /\ result.atsScore
                = ClaimScoreWithCoverage(ClaimRound(Len(result.skillsFound), Len(DEFAULT_SKILLS)), text)
    /\ (Returned /\ options.isArray /\ ClaimCatalog # <<>>
          /\ \A e \in EntrySet(ClaimCatalog) : trim(e) = <<>>) =>
          /\ result.skillsFound = <<>>
          /\ result.missingSkills = <<>>
          /\ LET text == ClaimText IN result.atsScore = ClaimScoreWithCoverage(0, text)

\* a call with targetSkills = [] that finds a skill of the default list
C6_Witness ==
    /\ Returned /\ options.isArray /\ ClaimCatalog = <<>>
    /\ result.skillsFound = << <<"j", "a", "v", "a">> >>

\* the messages of the six rules, in their order
ClaimRuleText == <<SuggestSkills, SuggestExperience, SuggestBullets, SuggestNumbers,
                   SuggestKeywords, SuggestLength>>

\* the conditions of the six rules, in their order
ClaimRuleHolds(text) ==
    LET secs == EntrySet(detectSections(text))
    IN  << "skills" \notin secs,
           "experience" \notin secs,
           ~hasBulletLine(text),
           ~(hasYear(text) \/ hasPercentOrPlus(text)),
           result.missingSkills # <<>>,
           Len(text) < 900 >>

\* C7: the suggestions are exactly the messages of the six rules whose own
\* condition holds, each once, in the fixed order of the rules; when all six
\* conditions hold, all six messages are emitted in that order.
C7_SuggestionsInRuleOrder ==
    Returned =>
        LET s == result.suggestions
            holds == ClaimRuleHolds(ClaimText)
            rule(i) == CHOOSE r \in 1..6 : ClaimRuleText[r] = s[i].text
        IN  /\ \A i \in 1..Len(s) : \E r \in 1..6 : ClaimRuleText[r] = s[i].text
            /\ \A r \in 1..6 : holds[r] <=> (\E i \in 1..Len(s) : s[i].text = ClaimRuleText[r])
            /\ \A i \in 1..(Len(s) - 1) : rule(i) < rule(i + 1)

\* a call in which all six rules fire
C7_Witness ==
    /\ Returned
    /\ Len(result.suggestions) = 6
    /\ result.suggestions[1].text = SuggestSkills
    /\ result.suggestions[6].text = SuggestLength
----------------------------------------------------------------------------
(* server.js *)

MAX_UPLOAD_BYTES == 200 * 1024

\* limits.fileSize of the multer instance
MulterFileSizeLimit == MAX_UPLOAD_BYTES

MaxTextLength == 50000
MinTextLength == 30

REQUEST_TIMEOUT_MS == 15000

\* the clock advances in steps of TickMs, Ticks of them to the deadline
Ticks == 3
TickMs == REQUEST_TIMEOUT_MS \div Ticks

UnsupportedMessage == "Unsupported file type. Please upload a PDF or TXT resume."
TooLargeMessage == "File too large. Please upload a resume up to 200 KB."
NoFileMessage == "No file uploaded. Please attach a resume using form field name 'file'."
PdfTooMuchTextMessage == "PDF contains too much text. Please use a simpler resume file."
TxtTooLargeMessage == "Text file is too large. Please use a simpler resume file."
PdfUnreadableMessage == "Could not read PDF. Ensure it is not password-protected, corrupted, or overly complex."
InsufficientMessage == "Could not extract enough text from the resume. Try a different PDF/TXT."
AnalysisFailedMessage == "Analysis failed. The resume may be too complex or contain invalid content."
TimeoutResponseMessage == "Processing took too long. Please try a smaller or simpler resume file."
ServerErrorMessage == "Server error during analysis."
UnexpectedMessage == "An unexpected error occurred. Please try again."
UploadErrorMessage == "File upload error."
UnsupportedShortMessage == "Unsupported file type."

\* messages of errors the code does not create itself
TimeoutErrorMessage == "Request timeout. Processing took too long."
MulterLimitMessage == "File too large"
FsStatErrorMessage == "ENOENT: no such file or directory, stat '/tmp/resumelens-1-a.pdf'"
FsReadErrorMessage == "EIO: i/o error, read"
PdfParseErrorMessage == "Invalid PDF structure"
PdfWorkerErrorMessage == "worker exited: /usr/lib/node_modules/pdf-parse/lib/pdf.js/build/pdf.worker.js"

\* what the handler writes to the console (lines 284 and 317)
AnalyzeErrorLog == "[backend] /analyze error:"
CleanupFailedLog == "[backend] temp file cleanup failed:"

\* an Error object: statusCode 0 and code "" stand for undefined
NoError == [name |-> "", message |-> "", statusCode |-> 0, code |-> ""]
NewError(msg) == [name |-> "Error", message |-> msg, statusCode |-> 0, code |-> ""]
ErrorWithStatus(msg, status) == [name |-> "Error", message |-> msg, statusCode |-> status, code |-> ""]
MulterError(code, msg) == [name |-> "MulterError", message |-> msg, statusCode |-> 0, code |-> code]

\* a catch block without its test for the timeout
messageIncludesTimeoutNever(msg) == FALSE

\* err.message.includes("timeout"), over the messages above
messageIncludesTimeout(msg) == msg \in {TimeoutErrorMessage}

\* a response: res.status(status).json(body)
Failure(status, msg) == [status |-> status, body |-> [success |-> FALSE, message |-> msg]]
Success(analysis) ==
    [status |-> 200,
     body |-> [success |-> TRUE,
               data |-> [atsScore |-> analysis.atsScore,
                         skillsFound |-> analysis.skillsFound,
                         missingSkills |-> analysis.missingSkills,
                         suggestions |-> analysis.suggestions]]]

\* lines 87-91: the two type tests of the upload filter
isPdfFile(file) ==
    toLowerCase(file.mimetype) = <<"a", "p", "p", "l", "i", "c", "a", "t", "i", "o", "n", "/", "p", "d", "f">> \/ endsWith(toLowerCase(file.originalname), <<".", "p", "d", "f">>)

isTxtFile(file) ==
    toLowerCase(file.mimetype) = <<"t", "e", "x", "t", "/", "p", "l", "a", "i", "n">> \/ endsWith(toLowerCase(file.originalname), <<".", "t", "x", "t">>)

\* the error fileFilter passes to its callback, NoError when it accepts
fileFilter(file) ==
    IF isPdfFile(file) \/ isTxtFile(file) THEN NoError
    ELSE ErrorWithStatus(UnsupportedMessage, 400)

\* a dispatch that goes by the declared content type alone
extractIsPdfByMime(file) == toLowerCase(file.mimetype) = <<"a", "p", "p", "l", "i", "c", "a", "t", "i", "o", "n", "/", "p", "d", "f">>

\* lines 142-146: the two type tests of extractTextFromUpload
extractIsPdf(file) ==
    toLowerCase(file.mimetype) = <<"a", "p", "p", "l", "i", "c", "a", "t", "i", "o", "n", "/", "p", "d", "f">> \/ endsWith(toLowerCase(file.originalname), <<".", "p", "d", "f">>)

extractIsTxt(file) ==
    toLowerCase(file.mimetype) = <<"t", "e", "x", "t", "/", "p", "l", "a", "i", "n">> \/ endsWith(toLowerCase(file.originalname), <<".", "t", "x", "t">>)

\* the layers of the app, in the order of their registration
\* (lines 47, 48, 114, 137, 211, 330)
MiddlewareStack == <<"cors", "json", "multerErrorHandler", "health", "analyze", "globalErrorHandler">>

ErrorHandlers == {"multerErrorHandler", "globalErrorHandler"}

\* Express hands an error raised in a layer to the error handlers registered
\* after that layer, in order
errorHandlersAfter(layer) ==
    LET at == CHOOSE i \in DOMAIN MiddlewareStack : MiddlewareStack[i] = layer
        isHandler(name) == name \in ErrorHandlers
    IN  SelectSeq(SubSeq(MiddlewareStack, at + 1, Len(MiddlewareStack)), isHandler)

NoResponse == [status |-> 0, body |-> [success |-> FALSE, message |-> ""]]

\* lines 114-135: the response sent, NoResponse when the handler calls next(err)
multerErrorHandler(err) ==
    IF err.name = "MulterError"
    THEN IF err.code = "LIMIT_FILE_SIZE" THEN Failure(413, TooLargeMessage)
         ELSE Failure(400, IF err.message # "" THEN err.message ELSE UploadErrorMessage)
    ELSE IF err.statusCode = 400
         THEN Failure(400, IF err.message # "" THEN err.message ELSE UnsupportedShortMessage)
         ELSE NoResponse

\* a global handler that delegates to the default handler of Express
globalErrorHandlerDelegates(err) == NoResponse

\* lines 330-343, no response having been sent
globalErrorHandler(err) == Failure(500, UnexpectedMessage)

\* the page of Express's own final handler
FinalHandlerResponse == [status |-> 500, body |-> [html |-> "<pre>Internal Server Error</pre>"]]

RECURSIVE runErrorHandlers(_, _)
runErrorHandlers(handlers, err) ==
    IF handlers = <<>> THEN FinalHandlerResponse
    ELSE LET r == IF Head(handlers) = "multerErrorHandler"
                  THEN multerErrorHandler(err) ELSE globalErrorHandler(err)
         IN  IF r # NoResponse THEN r ELSE runErrorHandlers(Tail(handlers), err)

\* what an upload holds: the text its bytes decode or parse to
ResumeFrags == <<"sections", "bullet", "blank", "java", "blank", "year">>

ContentText(content) ==
    CASE content = "resume"  -> concat(ResumeFrags)
      [] content = "short"   -> <<" ", " ", "h", "i", " ", "LF">>
      [] content = "trim29"  -> <<" ", "LF">> \o AsTuple([i \in 1..(MinTextLength - 1) |-> "a"]) \o <<"TAB", " ", "LF">>
      [] content = "trim30"  -> <<" ", "LF">> \o AsTuple([i \in 1..MinTextLength |-> "a"]) \o <<"TAB", " ", "LF">>
      [] content \in {"corrupt", "corruptStatus"} -> <<"%", "P", "D", "F", "-">> \o AsTuple([i \in 1..40 |-> "."])
      [] content = "limit"   -> <<"j", "a", "v", "a", " ">> \o AsTuple([i \in 1..(MaxTextLength - 5) |-> "."])
      [] content = "huge"    -> AsTuple([i \in 1..(MaxTextLength + 1) |-> "."])

\* pdfParse(buf): its error, NoError when it resolves. The extractor is a
\* library: its errors are plain ones, or carry a statusCode of their own.
pdfParseError(content) ==
    CASE content = "corrupt"       -> NewError(PdfParseErrorMessage)
      [] content = "corruptStatus" -> ErrorWithStatus(PdfWorkerErrorMessage, 502)
      [] OTHER                     -> NoError

NoFile == [present |-> FALSE, mimetype |-> <<>>, originalname |-> <<>>, size |-> 0]

\* a clearTimeout that leaves the timer set
clearTimeoutNoop(t) == t

\* lines 272, 287 and 321: clearTimeout(timeoutId)
clearTimeout(t) == IF t = "pending" THEN "cleared" ELSE t

\* an extraction without the test of the size fs.stat reports
statTooLargeNever(size) == FALSE

\* stats.size > MAX_UPLOAD_BYTES, line 152 and line 187
statTooLarge(size) == size > MAX_UPLOAD_BYTES

\* the state the handler moves: its position, the timer, the responses, the
\* calls, the console and the races
Moved(c) ==
    /\ spc' = c.spc
    /\ timer' = c.timer
    /\ responses' = c.responses
    /\ calls' = c.calls
    /\ logs' = c.logs
    /\ races' = c.races

Here == [spc |-> spc, timer |-> timer, responses |-> responses, calls |-> calls,
         logs |-> logs, races |-> races]

\* a Promise.race of an operation against timeoutPromise, the one promise of
\* line 218, whose timer has `remaining` milliseconds left
raceAgainstTimeout(op, remaining) == [op |-> op, against |-> "timeoutPromise", remaining |-> remaining]

\* line 247: the timer has just been set
extractionRace == raceAgainstTimeout("extractTextFromUpload", REQUEST_TIMEOUT_MS)

\* a race of the analysis against a timer of its own
analysisRaceOwnTimer == [op |-> "analyzeResume", against |-> "analysisTimeoutPromise", remaining |-> REQUEST_TIMEOUT_MS]

\* line 262: the timer has been running since line 219
analysisRace == raceAgainstTimeout("analyzeResume", REQUEST_TIMEOUT_MS - elapsed)

\* a handler that deletes the temporary file after a success only
finallyBlockOnSuccessOnly(c) ==
    IF c.responses[Len(c.responses)].body.success
    THEN [c EXCEPT !.spc = "awaitUnlink", !.calls = Append(c.calls, "unlink")]
    ELSE [c EXCEPT !.spc = "done", !.timer = clearTimeout(c.timer)]

\* lines 310-322, up to the await of fs.unlink; tmpPath is set
finallyBlock(c) == [c EXCEPT !.spc = "awaitUnlink", !.calls = Append(c.calls, "unlink")]

\* lines 289-309: the response of the catch block
catchResponse(err) ==
    IF err.message # "" /\ messageIncludesTimeout(err.message)
    THEN Failure(504, TimeoutResponseMessage)
    ELSE IF err.code = "LIMIT_FILE_SIZE"
    THEN Failure(413, TooLargeMessage)
    ELSE Failure(IF err.statusCode # 0 THEN err.statusCode ELSE 500,
                 IF err.message # "" THEN err.message ELSE ServerErrorMessage)

\* lines 283-309 and the finally block: the race of line 247 rejected with err
afterRaceRejected(err, c) ==
    finallyBlock([c EXCEPT !.logs = Append(c.logs, AnalyzeErrorLog),
                           !.timer = clearTimeout(c.timer),
                           !.responses = Append(c.responses, catchResponse(err))])

\* a guard on the length of the text as extracted
tooShortUntrimmed(text) == Len(text) < MinTextLength

\* line 249: !text || text.trim().length < 30
tooShort(text) == Len(text) = 0 \/ Len(trim(text)) < MinTextLength

\* lines 249-282 and the finally block: the race of line 247 resolved with text.
\* analyzeResume returns for every string; the race of line 262 is between a
\* promise that is already resolved and the timer's, which is pending here.
afterRaceResolved(text, c) ==
    IF tooShort(text)
    THEN finallyBlock([c EXCEPT !.responses = Append(c.responses, Failure(400, InsufficientMessage))])
    ELSE finallyBlock([c EXCEPT !.calls = Append(c.calls, "analyzeResume"),
                                !.races = Append(c.races, analysisRace),
                                !.timer = clearTimeout(c.timer),
                                !.responses = Append(c.responses, Success(analyzeResume(text, NoOptions)))])

\* textPromise settles: the handler resumes when it awaits the race of line 247
settleRejected(err, c) ==
    /\ ext' = "rejected"
    /\ extErr' = err
    /\ Moved(IF spc = "awaitExtract" THEN afterRaceRejected(err, c) ELSE c)

\* a continuation attached to the extraction itself, run whenever it fulfils
settleResolvedResumes(text, c) ==
    /\ ext' = "resolved"
    /\ UNCHANGED extErr
    /\ Moved(afterRaceResolved(text, c))

settleResolved(text, c) ==
    /\ ext' = "resolved"
    /\ UNCHANGED extErr
    /\ Moved(IF spc = "awaitExtract" THEN afterRaceResolved(text, c) ELSE c)

\* a guard that also refuses a text of exactly the bound
textOrErrorInclusive(text, tooLongMessage, c) ==
    IF Len(text) >= MaxTextLength
    THEN settleRejected(ErrorWithStatus(tooLongMessage, 400), c)
    ELSE settleResolved(text, c)

\* lines 165 and 196: the text is returned, or the error thrown
textOrError(text, tooLongMessage, c) ==
    IF Len(text) > MaxTextLength
    THEN settleRejected(ErrorWithStatus(tooLongMessage, 400), c)
    ELSE settleResolved(text, c)

----------------------------------------------------------------------------
(* The handling of one request *)

\* upload.single("file"): the file filter, the size limit, the disk storage
UploadSingle ==
    /\ spc = "upload"
    /\ IF ~upload.hasFile
       THEN /\ spc' = "handler"
            /\ UNCHANGED <<pendingErr, reqFile, tmpFile>>
       ELSE IF fileFilter(upload) # NoError
       THEN /\ spc' = "error"
            /\ pendingErr' = fileFilter(upload)
            /\ UNCHANGED <<reqFile, tmpFile>>
       ELSE IF upload.bytes > MulterFileSizeLimit
       THEN /\ spc' = "error"
            /\ pendingErr' = MulterError("LIMIT_FILE_SIZE", MulterLimitMessage)
            /\ UNCHANGED <<reqFile, tmpFile>>
       ELSE /\ spc' = "handler"
            /\ reqFile' = [present |-> TRUE, mimetype |-> upload.mimetype,
                           originalname |-> upload.originalname, size |-> upload.bytes]
            /\ tmpFile' = "stored"
            /\ UNCHANGED pendingErr
    /\ UNCHANGED <<upload, timer, ext, extErr, calls, responses, logs, elapsed, races>>
    /\ UNCHANGED avars

\* next(err) out of the route of POST /analyze
ErrorDispatch ==
    /\ spc = "error"
    /\ responses' = Append(responses, runErrorHandlers(errorHandlersAfter("analyze"), pendingErr))
    /\ spc' = "done"
    /\ UNCHANGED <<upload, pendingErr, reqFile, tmpFile, timer, ext, extErr, calls, logs, elapsed, races>>
    /\ UNCHANGED avars

\* lines 211-247: the handler, up to its first await
HandlerStart ==
    /\ spc = "handler"
    /\ LET c == [Here EXCEPT !.timer = "pending"]
       IN  IF ~reqFile.present
           THEN /\ Moved([c EXCEPT !.spc = "done", !.timer = clearTimeout(c.timer),
                                   !.responses = Append(responses, Failure(400, NoFileMessage))])
                /\ UNCHANGED <<ext, extErr>>
           ELSE IF reqFile.size > MAX_UPLOAD_BYTES
           THEN /\ Moved(finallyBlock([c EXCEPT !.responses = Append(responses, Failure(413, TooLargeMessage))]))
                /\ UNCHANGED <<ext, extErr>>
           ELSE IF extractIsPdf(reqFile) \/ extractIsTxt(reqFile)
           THEN /\ Moved([c EXCEPT !.spc = "awaitExtract", !.calls = Append(calls, "stat"),
                                   !.races = Append(races, extractionRace)])
                /\ ext' = "stat"
                /\ UNCHANGED extErr
           ELSE /\ Moved(afterRaceRejected(ErrorWithStatus(UnsupportedMessage, 400),
                                           [c EXCEPT !.races = Append(races, extractionRace)]))
                /\ ext' = "rejected"
                /\ extErr' = ErrorWithStatus(UnsupportedMessage, 400)
    /\ elapsed' = 0
    /\ UNCHANGED <<upload, pendingErr, reqFile, tmpFile>>
    /\ UNCHANGED avars

\* fs.stat settles (lines 151-156 and 186-191)
StatDone ==
    /\ ext = "stat"
    /\ \/ /\ tmpFile = "stored"
          /\ IF statTooLarge(upload.onDisk)
             THEN settleRejected(ErrorWithStatus(TooLargeMessage, 413), Here)
             ELSE /\ ext' = "read"
                  /\ UNCHANGED extErr
                  /\ Moved([Here EXCEPT !.calls = Append(calls, "readFile")])
       \/ settleRejected(NewError(FsStatErrorMessage), Here)
    /\ UNCHANGED <<upload, pendingErr, reqFile, tmpFile, elapsed>>
    /\ UNCHANGED avars

\* fs.readFile settles (lines 158-160 and 193-202)
ReadFileDone ==
    /\ ext = "read"
    /\ \/ /\ tmpFile = "stored"
          /\ IF extractIsPdf(reqFile)
             THEN /\ ext' = "parse"
                  /\ UNCHANGED extErr
                  /\ Moved([Here EXCEPT !.calls = Append(calls, "pdfParse")])
             ELSE textOrError(ContentText(upload.content), TxtTooLargeMessage, Here)
       \/ settleRejected(NewError(FsReadErrorMessage), Here)
    /\ UNCHANGED <<upload, pendingErr, reqFile, tmpFile, elapsed>>
    /\ UNCHANGED avars

\* pdfParse settles (lines 160-181)
PdfParseDone ==
    /\ ext = "parse"
    /\ LET e == pdfParseError(upload.content)
       IN  IF e # NoError
           THEN IF e.statusCode # 0
                THEN settleRejected(e, Here)
                ELSE settleRejected(ErrorWithStatus(PdfUnreadableMessage, 400), Here)
           ELSE textOrError(ContentText(upload.content), PdfTooMuchTextMessage, Here)
    /\ UNCHANGED <<upload, pendingErr, reqFile, tmpFile, elapsed>>
    /\ UNCHANGED avars

\* time passes while the handler is suspended and its timer is set
Tick ==
    /\ timer = "pending"
    /\ spc \in {"awaitExtract", "awaitUnlink"}
    /\ elapsed < REQUEST_TIMEOUT_MS
    /\ elapsed' = elapsed + TickMs
    /\ UNCHANGED <<upload, spc, pendingErr, reqFile, tmpFile, timer, ext, extErr, calls,
                   responses, logs, races>>
    /\ UNCHANGED avars

\* a handler whose timer never fires
TimerNeverFires == FALSE /\ UNCHANGED vars

\* the timer of line 219 fires while the handler is suspended
TimerFire ==
    /\ timer = "pending"
    /\ elapsed >= REQUEST_TIMEOUT_MS
    /\ spc \in {"awaitExtract", "awaitUnlink"}
    /\ LET c == [Here EXCEPT !.timer = "fired"]
       IN  Moved(IF spc = "awaitExtract" THEN afterRaceRejected(NewError(TimeoutErrorMessage), c) ELSE c)
    /\ UNCHANGED <<upload, pendingErr, reqFile, tmpFile, ext, extErr, elapsed>>
    /\ UNCHANGED avars

\* a finally block that lets the error of fs.unlink out of the handler, to the
\* error handlers of the app
unlinkFailedEscalates(c) ==
    [c EXCEPT !.logs = Append(c.logs, CleanupFailedLog),
              !.responses = Append(c.responses, globalErrorHandler(NewError(FsReadErrorMessage)))]

\* lines 315-318: the error of fs.unlink is caught and logged
unlinkFailed(c) == [c EXCEPT !.logs = Append(c.logs, CleanupFailedLog)]

\* fs.unlink settles (lines 312-321), then line 321
UnlinkDone ==
    /\ spc = "awaitUnlink"
    /\ LET c == [Here EXCEPT !.spc = "done", !.timer = clearTimeout(timer)]
       IN  \/ /\ tmpFile' = "deleted"
              /\ Moved(c)
           \/ /\ UNCHANGED tmpFile
              /\ Moved(unlinkFailed(c))
    /\ UNCHANGED <<upload, pendingErr, reqFile, ext, extErr, elapsed>>
    /\ UNCHANGED avars

----------------------------------------------------------------------------
(* The uploads *)

MimeTypes == { <<"a", "p", "p", "l", "i", "c", "a", "t", "i", "o", "n", "/", "p", "d", "f">>, <<"A", "p", "p", "l", "i", "c", "a", "t", "i", "o", "n", "/", "P", "D", "F">>, <<"t", "e", "x", "t", "/", "p", "l", "a", "i", "n">>, <<"i", "m", "a", "g", "e", "/", "p", "n", "g">> }

FileNames == { <<"c", "v", ".", "p", "d", "f">>, <<"C", "V", ".", "P", "D", "F">>, <<"c", "v", ".", "t", "x", "t">>, <<"c", "v", ".", "p", "n", "g">>, <<>> }

UploadBytes == {1024, MAX_UPLOAD_BYTES, MAX_UPLOAD_BYTES + 1}

\* the size fs.stat reports: the bytes stored, or more when the file in the
\* shared temporary directory has been written to since
DiskSizes(bytes) == {bytes, MAX_UPLOAD_BYTES + 1}

NoUpload == [hasFile |-> FALSE, mimetype |-> <<>>, originalname |-> <<>>, bytes |-> 0,
             onDisk |-> 0, content |-> "resume"]

Uploads ==
    {NoUpload}
    \cup {[hasFile |-> TRUE, mimetype |-> m, originalname |-> n, bytes |-> b, onDisk |-> d, content |-> k] :
            m \in MimeTypes, n \in FileNames, b \in UploadBytes,
            d \in {MAX_UPLOAD_BYTES + 1} \cup UploadBytes, k \in {"resume", "short", "corrupt"}}
    \cup {[hasFile |-> TRUE, mimetype |-> m, originalname |-> <<"c", "v">>, bytes |-> 1024, onDisk |-> 1024, content |-> k] :
            m \in { <<"a", "p", "p", "l", "i", "c", "a", "t", "i", "o", "n", "/", "p", "d", "f">>, <<"t", "e", "x", "t", "/", "p", "l", "a", "i", "n">> },
            k \in {"huge", "limit", "trim29", "trim30", "corruptStatus"}}

SIdle ==
    /\ upload = NoUpload
    /\ spc = "upload"
    /\ pendingErr = NoError
    /\ reqFile = NoFile
    /\ tmpFile = "none"
    /\ timer = "unset"
    /\ ext = "idle"
    /\ extErr = NoError
    /\ calls = <<>>
    /\ responses = <<>>
    /\ logs = <<>>
    /\ elapsed = 0
    /\ races = <<>>

ServerInit ==
    /\ upload \in {u \in Uploads : u.hasFile => u.onDisk \in DiskSizes(u.bytes)}
    /\ spc = "upload"
    /\ pendingErr = NoError
    /\ reqFile = NoFile
    /\ tmpFile = "none"
    /\ timer = "unset"
    /\ ext = "idle"
    /\ extErr = NoError
    /\ calls = <<>>
    /\ responses = <<>>
    /\ logs = <<>>
    /\ elapsed = 0
    /\ races = <<>>
    /\ resumeText = [frags |-> <<>>, padTo |-> 0]
    /\ options = NoOptions
    /\ result = NoResult
    /\ apc = "ready"
    /\ defaultSkills = DEFAULT_SKILLS
    /\ history = <<>>

ServerNext ==
    \/ UploadSingle
    \/ ErrorDispatch
    \/ HandlerStart
    \/ StatDone
    \/ ReadFileDone
    \/ PdfParseDone
    \/ Tick
    \/ TimerFire
    \/ UnlinkDone

ServerSpec == ServerInit /\ [][ServerNext]_vars

----------------------------------------------------------------------------
(* Properties of the upload pipeline *)

Answered == responses # <<>>

\* the upload is of neither type, by its content type and by its file name
ClaimUnsupportedUpload ==
    /\ upload.hasFile
    /\ toLowerCase(upload.mimetype) \notin { <<"a", "p", "p", "l", "i", "c", "a", "t", "i", "o", "n", "/", "p", "d", "f">>, <<"t", "e", "x", "t", "/", "p", "l", "a", "i", "n">> }
    /\ ~endsWith(toLowerCase(upload.originalname), <<".", "p", "d", "f">>)
    /\ ~endsWith(toLowerCase(upload.originalname), <<".", "t", "x", "t">>)

\* C8: an upload of an unsupported type is answered with the 'Unsupported
\* file type' failure and with no other, and neither the file read nor the
\* extractor is invoked for it.
C8_UnsupportedTypeAnswered ==
    ClaimUnsupportedUpload =>
        /\ ~includes(calls, "readFile")
        /\ ~includes(calls, "pdfParse")
        /\ Answered => responses = <<Failure(400, UnsupportedMessage)>>

\* the PayloadTooLarge failure
ClaimPayloadTooLarge == Failure(413, TooLargeMessage)

\* C9: whichever size check detects the upload larger than MAX_UPLOAD_BYTES
\* (multer's fileSize limit, the test of req.file.size in the handler, or
\* the test of the size fs.stat reports, made while the handler awaits the
\* extraction), the caller receives the PayloadTooLarge failure, status 413,
\* and no other.
C9_EverySizeCheckAnswers413 ==
    /\ (pendingErr.code = "LIMIT_FILE_SIZE" /\ Answered) => responses = <<ClaimPayloadTooLarge>>
    /\ (reqFile.present /\ reqFile.size > MAX_UPLOAD_BYTES /\ Answered)
          => responses = <<ClaimPayloadTooLarge>>
    /\ (extErr.statusCode = 413 /\ timer # "fired") => responses = <<ClaimPayloadTooLarge>>

\* C10: pdfParse is invoked only for a file whose declared size and whose
\* size on disk are both at most MAX_UPLOAD_BYTES; for an upload that
\* exceeds the bound it is never invoked.
C10_ExtractorOnlyWithinBound ==
    /\ includes(calls, "pdfParse") =>
          /\ reqFile.present
          /\ reqFile.size <= MAX_UPLOAD_BYTES
          /\ upload.onDisk <= MAX_UPLOAD_BYTES
    /\ (upload.hasFile /\ (upload.bytes > MAX_UPLOAD_BYTES \/ upload.onDisk > MAX_UPLOAD_BYTES))
          => ~includes(calls, "pdfParse")

\* the extractor invoked for a PDF of exactly MAX_UPLOAD_BYTES bytes
C10_Witness ==
    /\ includes(calls, "pdfParse")
    /\ upload.bytes = MAX_UPLOAD_BYTES
    /\ upload.onDisk = MAX_UPLOAD_BYTES

\* an upload of an unsupported type answered with the generic failure, status 500
C8_Witness ==
    /\ ClaimUnsupportedUpload
    /\ responses = <<Failure(500, UnexpectedMessage)>>

\* an upload over multer's fileSize limit answered with the generic failure,
\* status 500
C9_Witness ==
    /\ pendingErr.code = "LIMIT_FILE_SIZE"
    /\ responses = <<Failure(500, UnexpectedMessage)>>

----------------------------------------------------------------------------
(* Cleanup, deadline and failure reporting *)

\* no fs.unlink of the request has failed
ClaimCleanupSucceeded == ~includes(logs, CleanupFailedLog)

\* the handling of the request is over
ClaimFinished == spc = "done"

\* the only response of the request
ClaimResponse == responses[1]

\* C11: for a request whose upload was stored as a temporary file, the file
\* no longer exists once the handling of the request is over and the delete
\* has not failed, whichever way the handler was left; the delete is
\* attempted once, after the response.
C11_TempFileReleased ==
    (ClaimFinished /\ reqFile.present) =>
        /\ Len(SelectSeq(calls, LAMBDA x : x = "unlink")) = 1
        /\ Len(responses) = 1
        /\ ClaimCleanupSucceeded => tmpFile = "deleted"

\* a request answered with a success, its temporary file deleted
C11_Witness ==
    /\ ClaimFinished /\ reqFile.present
    /\ ClaimResponse.body.success
    /\ tmpFile = "deleted"

\* extractTextFromUpload has been called and has not settled
ClaimExtracting == ext \in {"stat", "read", "parse"}

\* the Timeout failure
ClaimTimeout == Failure(504, TimeoutResponseMessage)

\* C12: when the timer fires before the extraction has settled, the request
\* is answered in that step with the Timeout failure, status 504, the
\* extraction being left where it stands and the delete of the temporary
\* file started; a request answered with the Timeout failure never has the
\* analyzer invoked, and its temporary file is deleted once the handling is
\* over (the delete not having failed).
C12_DeadlineAnswersTimeout ==
    /\ [][(timer = "pending" /\ timer' = "fired" /\ ClaimExtracting) =>
            /\ responses = <<>>
            /\ responses' = <<ClaimTimeout>>
            /\ ext' = ext
            /\ calls' = Append(calls, "unlink")]_vars
    /\ [](responses = <<ClaimTimeout>> =>
            /\ ~includes(calls, "analyzeResume")
            /\ (ClaimFinished /\ ClaimCleanupSucceeded) => tmpFile = "deleted")

\* the timer has fired on a pending pdfParse, the request is answered with
\* the Timeout failure and the file is gone
C12_Witness ==
    /\ timer = "fired" /\ ext = "parse"
    /\ responses = <<ClaimTimeout>>
    /\ ClaimFinished /\ tmpFile = "deleted"

\* C13: every request that reaches the handler of POST /analyze is
\* eventually answered, also when the extraction never settles, the timer
\* being allowed to fire.
C13_HandlerEventuallyAnswers == (spc = "handler") ~> Answered

\* a request answered while fs.stat is still pending
C13_Witness ==
    /\ Answered
    /\ ext = "stat"
    /\ elapsed >= REQUEST_TIMEOUT_MS

\* a success envelope: success = true and a data object holding exactly the
\* four fields of the analysis
ClaimSuccessEnvelope(body) ==
    /\ DOMAIN body = {"success", "data"}
    /\ body.success = TRUE
    /\ DOMAIN body.data = {"atsScore", "skillsFound", "missingSkills", "suggestions"}

\* a failure envelope: success = false, a message that is not empty, no data
ClaimFailureEnvelope(body) ==
    /\ DOMAIN body = {"success", "message"}
    /\ body.success = FALSE
    /\ body.message # ""

\* C14: every response sent for a POST /analyze request, those to errors of
\* the upload middleware and to unexpected faults included, is a success
\* envelope or a failure envelope; a request gets at most one response.
C14_EveryResponseIsEnvelope ==
    /\ Len(responses) <= 1
    /\ \A i \in DOMAIN responses :
          ClaimSuccessEnvelope(responses[i].body) \/ ClaimFailureEnvelope(responses[i].body)

\* an upload rejected by the upload middleware, answered with a failure
\* envelope by the global error handler
C14_Witness ==
    /\ pendingErr # NoError
    /\ Answered
    /\ ClaimFailureEnvelope(ClaimResponse.body)
    /\ ClaimResponse.body.message = UnexpectedMessage

\* the ExtractionFailed failure
ClaimExtractionFailed == Failure(400, PdfUnreadableMessage)

\* C15: whatever error pdfParse throws, the extraction fails with the one
\* 'Could not read PDF' error, the caller (unless answered with the Timeout
\* failure before) receives the ExtractionFailed failure, and the message of
\* the extractor's error is in no response.
C15_ExtractorErrorsNormalized ==
    (includes(calls, "pdfParse") /\ pdfParseError(upload.content) # NoError /\ ext = "rejected") =>
        /\ extErr = ErrorWithStatus(PdfUnreadableMessage, 400)
        /\ \A i \in DOMAIN responses :
              /\ responses[i].body.message # pdfParseError(upload.content).message
              /\ responses[i] \in {ClaimExtractionFailed, ClaimTimeout}

\* pdfParse has thrown an error that carries a statusCode, and the caller has
\* received that status and that message
C15_Witness ==
    /\ includes(calls, "pdfParse")
    /\ pdfParseError(upload.content) = ErrorWithStatus(PdfWorkerErrorMessage, 502)
    /\ responses = <<Failure(502, PdfWorkerErrorMessage)>>

\* an error that is none of the failures the pipeline creates itself: it has
\* no statusCode and no code and is not the timer's
ClaimUnclassified(err) ==
    /\ err # NoError
    /\ err.statusCode = 0
    /\ err.code = ""
    /\ err.message # TimeoutErrorMessage

\* the generic messages of the code
ClaimGenericMessages == {ServerErrorMessage, UnexpectedMessage}

\* C16: when the extraction fails with an error that is not one of the
\* pipeline's own failures (fs.stat or fs.readFile failing), the caller
\* (unless answered with the Timeout failure before) receives a generic fixed
\* message, and the message of the error is in no response.
C16_UnclassifiedErrorsGeneric ==
    (ext = "rejected" /\ ClaimUnclassified(extErr)) =>
        \A i \in DOMAIN responses :
            /\ responses[i].body.message # extErr.message
            /\ responses[i] = ClaimTimeout \/ responses[i].body.message \in ClaimGenericMessages

\* fs.stat has failed and the caller has received the message of its error,
\* the path of the temporary file in it
C16_Witness ==
    /\ extErr = NewError(FsStatErrorMessage)
    /\ responses = <<Failure(500, FsStatErrorMessage)>>

\* the extraction has obtained the text of the upload: pdfParse has resolved,
\* or fs.readFile has for a plain-text upload
ClaimTextExtracted ==
    IF isPdfFile(reqFile)
    THEN includes(calls, "pdfParse") /\ ext # "parse" /\ pdfParseError(upload.content) = NoError
    ELSE includes(calls, "readFile") /\ ext # "read" /\ extErr # NewError(FsReadErrorMessage)

\* the ContentTooLarge failure, of a PDF and of a plain text
ClaimContentTooLarge == {Failure(400, PdfTooMuchTextMessage), Failure(400, TxtTooLargeMessage)}

\* C17: for a PDF and for a plain-text upload, when the text extracted is
\* longer than 50000 characters the extraction fails, the request is
\* answered with the ContentTooLarge failure (unless answered with the
\* Timeout failure before) and the analyzer is never invoked; a text of 50000
\* characters or fewer is handed to the handler, and one of exactly 50000 is
\* analyzed.
C17_OutputSizeGuard ==
    ClaimTextExtracted =>
        LET n == Len(ContentText(upload.content))
        IN  /\ n > MaxTextLength =>
                  /\ ext = "rejected"
                  /\ extErr = ErrorWithStatus(IF isPdfFile(reqFile) THEN PdfTooMuchTextMessage
                                              ELSE TxtTooLargeMessage, 400)
                  /\ ~includes(calls, "analyzeResume")
                  /\ \A i \in DOMAIN responses :
                        responses[i] \in ClaimContentTooLarge \cup {ClaimTimeout}
            /\ n <= MaxTextLength => ext = "resolved"
            /\ (n = MaxTextLength /\ responses # <<ClaimTimeout>>) =>
                  /\ includes(calls, "analyzeResume")
                  /\ ClaimResponse.body.success

\* a plain text of exactly 50000 characters, analyzed
C17_Witness ==
    /\ upload.content = "limit" /\ ~isPdfFile(reqFile)
    /\ includes(calls, "analyzeResume")
    /\ ClaimResponse.body.success
    /\ ClaimResponse.body.data.skillsFound = << <<"j", "a", "v", "a">> >>

\* the InsufficientContent failure
ClaimInsufficientContent == Failure(400, InsufficientMessage)

\* C18: when the extraction resolves with a text whose trimmed length is
\* below 30 (the empty text included), the request is answered with the
\* InsufficientContent failure (unless answered with the Timeout failure
\* before) and the analyzer is not invoked; the analyzer is invoked only on a
\* text of trimmed length 30 or more; the message of InsufficientContent is
\* not that of ExtractionFailed.
C18_MinimumContentGuard ==
    /\ ClaimInsufficientContent # ClaimExtractionFailed
    /\ includes(calls, "analyzeResume") =>
          ext = "resolved" /\ Len(trim(ContentText(upload.content))) >= MinTextLength
    /\ (ext = "resolved" /\ responses # <<ClaimTimeout>>) =>
          IF Len(trim(ContentText(upload.content))) < MinTextLength
          THEN responses = <<ClaimInsufficientContent>> /\ ~includes(calls, "analyzeResume")
          ELSE includes(calls, "analyzeResume") /\ ClaimResponse.body.success

\* a text of 29 characters between blanks, refused
C18_Witness ==
    /\ upload.content = "trim29"
    /\ ext = "resolved"
    /\ responses = <<ClaimInsufficientContent>>

\* C19: when fs.unlink fails, the failure is logged and nothing else
\* happens: the response already sent stays the only one, no error is passed
\* on to the error handlers, and the handling of the request ends.
C19_CleanupFailureOnlyLogged ==
    /\ [][(spc = "awaitUnlink" /\ spc' # "awaitUnlink" /\ tmpFile' # "deleted") =>
            /\ logs' = Append(logs, CleanupFailedLog)
            /\ responses' = responses
            /\ pendingErr' = pendingErr
            /\ spc' = "done"]_vars
    /\ [](includes(logs, CleanupFailedLog) =>
            /\ Len(responses) = 1
            /\ pendingErr = NoError
            /\ ClaimFinished)

\* a success whose temporary file could not be deleted
C19_Witness ==
    /\ includes(logs, CleanupFailedLog)
    /\ tmpFile = "stored"
    /\ ClaimResponse.body.success

----------------------------------------------------------------------------
(* Timers, repeated calls and dispatch *)

\* the handler of POST /analyze has run for the request
ClaimHandled == ClaimFinished /\ pendingErr = NoError

\* C21: when the handling of a request is over, whichever way the handler
\* was left, the timer of the request is cancelled or has fired: no timer is
\* pending once the request is finished.
C21_NoTimerOutlivesRequest ==
    /\ ClaimFinished => timer # "pending"
    /\ ClaimHandled => timer \in {"cleared", "fired"}

\* a request refused for want of text, its timer cancelled by the finally
\* block alone
C21_Witness ==
    /\ ClaimHandled
    /\ responses = <<ClaimInsufficientContent>>
    /\ timer = "cleared"

C23_StructureAtMost25 ==
    Returned =>
        LET text == ClaimText
        IN  result.atsScore - (ClaimCoverage + ClaimFormatting(text)) <= 25

\* a text of the five section headings and nothing else, no skill of the
\* catalog in it: 30 points, all of them for its sections
C23_Witness ==
    /\ Returned
    /\ resumeText = [frags |-> <<"sections">>, padTo |-> 0]
    /\ result.skillsFound = <<>>
    /\ ClaimCoverage = 0
    /\ result.atsScore = 30

\* the names joined with ", "
RECURSIVE ClaimJoined(_)
ClaimJoined(names) ==
    IF Len(names) = 1 THEN names[1]
    ELSE names[1] \o <<",", " ">> \o ClaimJoined(Tail(names))

\* the keyword suggestions of the call
ClaimKeywordSuggestions ==
    SelectSeq(result.suggestions, LAMBDA s : s.text = SuggestKeywords)

\* C25: missingSkills is sorted; when it is not empty there is one keyword
\* suggestion, which names the first 8 entries of missingSkills (all of
\* them when there are 8 or fewer) joined with ", ", followed by ", ..."
\* exactly when missingSkills has more than 8 entries; when missingSkills is
\* empty there is no keyword suggestion.
C25_KeywordSuggestion ==
    Returned =>
        LET m == result.missingSkills
            kw == ClaimKeywordSuggestions
        IN  /\ \A i \in 1..(Len(m) - 1) : localeBefore(m[i], m[i + 1])
            /\ m = <<>> => kw = <<>>
            /\ m # <<>> =>
                  /\ Len(kw) = 1
                  /\ kw[1].tail =
                        IF Len(m) > 8 THEN ClaimJoined(SubSeq(m, 1, 8)) \o <<",", " ", ".", ".", ".">>
                        ELSE ClaimJoined(m)

\* nine skills missing, eight of them named
C25_Witness ==
    /\ Returned
    /\ Len(result.missingSkills) = 9
    /\ ClaimKeywordSuggestions[1].tail
          = <<"c", "+", "+", ",", " ", "g", "o", ",", " ", "G", "o", ",", " ", "j", "a", "v", "a", ",", " ", "p", "e", "r", "l", ",", " ", "p", "h", "p", ",", " ", "r", "u", "b", "y", ",", " ", "r", "u", "s", "t", ",", " ", ".", ".", ".">>

\* the handler has raced the analysis with the deadline already reached: the
\* timer is due while the handler awaits the race of line 262
ClaimAnalysisPastDeadline == Len(races) = 2 /\ races[2].remaining <= 0

ClaimAnalyzerCalls == Cardinality({i \in DOMAIN calls : calls[i] = "analyzeResume"})

\* C26: a request is answered at most once, whatever the order of the
\* extraction's completion, its failure and the timer: once a request is
\* answered, no later step (an extraction settling after the Timeout response
\* in particular) sends a response or calls the analyzer.
C26_AnsweredOnce ==
    [][/\ Len(responses') <= 1
       /\ responses # <<>> =>
            /\ responses' = responses
            /\ ClaimAnalyzerCalls' = ClaimAnalyzerCalls]_vars

\* an extraction that fulfilled after its request was answered with the
\* Timeout failure
C26_Witness ==
    /\ ext = "resolved"
    /\ timer = "fired"
    /\ responses = <<ClaimTimeout>>
    /\ ClaimAnalyzerCalls = 0

\* the two signals of a file disagree: one says PDF, the other plain text
ClaimSignalsConflict(file) ==
    LET mime == toLowerCase(file.mimetype)
        name == toLowerCase(file.originalname)
    IN  \/ mime = <<"a", "p", "p", "l", "i", "c", "a", "t", "i", "o", "n", "/", "p", "d", "f">> /\ endsWith(name, <<".", "t", "x", "t">>)
        \/ mime = <<"t", "e", "x", "t", "/", "p", "l", "a", "i", "n">> /\ endsWith(name, <<".", "p", "d", "f">>)

\* the error of the fallback at the end of extractTextFromUpload
ClaimUnsupportedFallback == ErrorWithStatus(UnsupportedMessage, 400)

\* C27: the upload filter and the dispatch of the extraction agree on every
\* content type and filename: the filter accepts a file exactly when one of
\* the two branches takes it, so that an accepted file never reaches the
\* 'Unsupported file type' fallback of the extraction; a file whose two
\* signals conflict is read as a PDF, never as plain text.
C27_FilterAndDispatchAgree ==
    /\ upload.hasFile =>
          ((fileFilter(upload) = NoError) <=> (extractIsPdf(upload) \/ extractIsTxt(upload)))
    /\ reqFile.present =>
          /\ extErr # ClaimUnsupportedFallback
          /\ \A i \in DOMAIN responses : responses[i] # Failure(400, UnsupportedMessage)
    /\ (reqFile.present /\ ClaimSignalsConflict(reqFile)) =>
          /\ ext \in {"parse", "resolved"} => includes(calls, "pdfParse")
          /\ extErr # ErrorWithStatus(TxtTooLargeMessage, 400)

\* a file declared as plain text and named cv.pdf, accepted, read and handed
\* to pdfParse
C27_Witness ==
    /\ reqFile.present
    /\ reqFile.mimetype = <<"t", "e", "x", "t", "/", "p", "l", "a", "i", "n">>
    /\ reqFile.originalname = <<"c", "v", ".", "p", "d", "f">>
    /\ ext = "resolved"
    /\ includes(calls, "pdfParse")

\* The handler runs once Express dispatches the request to it, time passes
\* while a timer is set, and the event loop runs the callback of a timer that
\* is due. Nothing is assumed of fs or of pdfParse: their promises may stay
\* pending for ever.
ServerFairness ==
    /\ WF_vars(HandlerStart)
    /\ WF_vars(Tick)
    /\ WF_vars(TimerFire)

ServerLiveSpec == ServerInit /\ [][ServerNext]_vars /\ ServerFairness

----------------------------------------------------------------------------
(* The calls of analyzeResume, on their own *)

AnalyzerInit == AnalyzerInputs /\ SIdle

AnalyzerNext == AnalyzeCall

AnalyzerSpec == AnalyzerInit /\ [][AnalyzerNext]_vars

\* a sequence of calls of analyzeResume in one process
AnalyzerSeqInit == SeqInputs /\ SIdle

AnalyzerSeqNext ==
    \/ AnalyzeCall
    \/ NextArguments

AnalyzerSeqSpec == AnalyzerSeqInit /\ [][AnalyzerSeqNext]_vars
====
